---- MODULE Spec2Model ----
(***************************************************************************)
(* Model of proekt/t16.py: calculate_hash, create_checksum_file and        *)
(* verify_integrity, run by one sequential process (the menu loop of       *)
(* main) over a file system that other processes may change between any    *)
(* two steps of the program.                                               *)
(*                                                                         *)
(* The process works in the scanned directory: the directory argument "."  *)
(* is that directory, "nodir" is a path that does not exist.  The tree     *)
(* holds a.txt and checksums.json at the top and sub/b.txt one level down. *)
(* The bytes of a data file are one of Contents.  The bytes of the n-th    *)
(* JSON document written to a manifest location stand as the token         *)
(* manifest#n: every written document differs from the ones before it      *)
(* (created_at, and the entries), and the digest and size tables give the  *)
(* values hashlib and len yield for these bytes.                           *)
(***************************************************************************)
EXTENDS Integers, Sequences, FiniteSets, TLC

\* bounds of the exploration
MaxEnv == 1
MaxWrites == 2

\* ---------------------------------------------------------------- inputs
Algorithms == {"md5", "sha1", "sha256"}
\* the algorithm arguments tried: two of the supported ones and one that is not
AlgoArgs == {"md5", "sha256", "sha512"}
Contents == {"hello", "world"}
DataPaths == {"a.txt", "sub/b.txt"}
OutLocs == {"checksums.json"}
TreePaths == DataPaths \cup {"checksums.json"}
OutputArgs == {"checksums.json", "./checksums.json"}
ChecksumArgs == {"checksums.json"}
DirArgs == {".", "nodir"}
VerifyDirArgs == {"None", ".", "nodir"}
TamperKinds == {"badjson", "nometadata", "nofiles", "nohash", "badalgo"}

VARIABLES fs, disk, pc, b, v, env, nwrites, touched

vars == <<fs, disk, pc, b, v, env, nwrites, touched>>

\* ------------------------------------------------------- path arithmetic
\* the file an output_file / checksum_file argument opens, seen from the
\* working directory
Resolve(o) ==
    CASE o = "checksums.json" -> "checksums.json"
      [] o = "./checksums.json" -> "checksums.json"

\* file_name of os.walk for the file with this relative path
BaseName(p) ==
    CASE p = "a.txt" -> "a.txt"
      [] p = "sub/b.txt" -> "b.txt"
      [] p = "checksums.json" -> "checksums.json"

\* the directory of the tree that lists the file
DirOf(p) == IF p = "sub/b.txt" THEN "sub" ELSE "."

DirExists(d) == d = "."

\* ------------------------------------------------------------ file system
NoFile == [present |-> FALSE, text |-> "", readable |-> FALSE, mtime |-> 0]

NoDoc == [present |-> FALSE, text |-> "", mtime |-> 0, json |-> TRUE,
          hasMetadata |-> TRUE, hasFiles |-> TRUE,
          algorithm |-> "", directory |-> "", files |-> <<>>]

ManifestText(n) ==
    CASE n = 1 -> "manifest#1"
      [] n = 2 -> "manifest#2"
      [] n = 3 -> "manifest#3"
      [] OTHER -> "manifest#4"

\* the bytes of a manifest that another process rewrote
TamperText(n) ==
    CASE n = 1 -> "tampered#1"
      [] n = 2 -> "tampered#2"
      [] n = 3 -> "tampered#3"
      [] OTHER -> "tampered#4"

FileExists(p) == IF p \in DataPaths THEN fs[p].present ELSE disk[p].present
FileReadable(p) == IF p \in DataPaths THEN fs[p].readable ELSE TRUE
FileText(p) == IF p \in DataPaths THEN fs[p].text ELSE disk[p].text
FileMtime(p) == IF p \in DataPaths THEN fs[p].mtime ELSE disk[p].mtime

\* os.path.getsize
TextSize(text) == IF text \in Contents THEN 5 ELSE 10

\* ------------------------------------------------------------- the hasher
Digest_md5(text) ==
    CASE text = "hello" -> "5d41402abc4b2a76b9719d911017c592"
      [] text = "world" -> "7d793037a0760186574b0282f2f435e7"
      [] text = "manifest#1" -> "9b3471f25f82c1115d1fd97e4603105a"
      [] text = "manifest#2" -> "46c34c690b26e5167bcbb6cb57fdd276"
      [] text = "manifest#3" -> "1e18887c06113be75a797e85d5346806"
      [] text = "manifest#4" -> "a0e4d10881a72a7a0a06baba893de88d"
      [] text = "tampered#1" -> "d7f8cdc1a3016c7ca551c7e28bc4a1ec"
      [] text = "tampered#2" -> "28104f5a9c9c64fd111380d9b3e70f0e"
      [] text = "tampered#3" -> "95e0a2221687bbe669a22730cb6ecc6a"
      [] text = "tampered#4" -> "5707dbd026332b9daecb60642a215a90"

Digest_sha1(text) ==
    CASE text = "hello" -> "aaf4c61ddcc5e8a2dabede0f3b482cd9aea9434d"
      [] text = "world" -> "7c211433f02071597741e6ff5a8ea34789abbf43"
      [] text = "manifest#1" -> "60ec60bb321d39d8347c44a2f6d7a19f4e06e152"
      [] text = "manifest#2" -> "84959227699c21c701f0477f8e9285db87ae94fc"
      [] text = "manifest#3" -> "ad5ba76377e8ca08184529f5dd00cafb1265854e"
      [] text = "manifest#4" -> "eb65d087c4cebaf351bd5ffa3c9e92f485867c7e"
      [] text = "tampered#1" -> "dad992fffae1557afa8f4a1fa364abfbe6ef900e"
      [] text = "tampered#2" -> "56e1e72c7bcdc5ed5b589b2a3fc6b67bfc1ed7b8"
      [] text = "tampered#3" -> "7a2808ec91f23012bab2427764b9d5ee19b903f2"
      [] text = "tampered#4" -> "c70e89c44773745dfe64ccd641f2d077d85dd0d0"

Digest_sha256(text) ==
    CASE text = "hello" -> "2cf24dba5fb0a30e26e83b2ac5b9e29e1b161e5c1fa7425e73043362938b9824"
      [] text = "world" -> "486ea46224d1bb4fb680f34f7c9ad96a8f24ec88be73ea8e5a6c65260e9cb8a7"
      [] text = "manifest#1" -> "3ce2f4c4e6d96e89a28006f2e811a05cd6a4624dfcfd4b9287edee90df5eac1f"
      [] text = "manifest#2" -> "dd1154df13ae6968e9894ec1e133579932ede879d33a6de476f246c908df63d6"
      [] text = "manifest#3" -> "ca1a9a26ef42deca75fa299485037dfceda1065053567473db7daa4f33517536"
      [] text = "manifest#4" -> "e0aba193f590eb3b1b8837dce0d79a11c986510ea16c92650662ba4351b9bfe0"
      [] text = "tampered#1" -> "078145a598bc16f2cdcc27fc6f381d264039214f14711d030b4322bd81d24170"
      [] text = "tampered#2" -> "953649f625035577528fa84f74154b457f7bee0c7338f36eadb971fd718db0d3"
      [] text = "tampered#3" -> "a210d151fbd5028c10f913f559a9db30d42fdb818956aa3856d3f068fc831ea9"
      [] text = "tampered#4" -> "b552882945fa14ed4e9cee89816c66de05b68e6f749bce73169667ebc9c8fe71"

\* hash_obj.update over every chunk, then hexdigest
Digest(algorithm, text) ==
    CASE algorithm = "md5" -> Digest_md5(text)
      [] algorithm = "sha1" -> Digest_sha1(text)
      [] algorithm = "sha256" -> Digest_sha256(text)

\* calculate_hash(file_path, algorithm): the digest, or the exception raised
calculate_hash(exists, readable, text, algorithm) ==
    IF algorithm \notin Algorithms
    THEN [ok |-> FALSE, hex |-> "", err |-> "ValueError"]
    ELSE IF ~exists
    THEN [ok |-> FALSE, hex |-> "", err |-> "FileNotFoundError"]
    ELSE IF ~readable
    THEN [ok |-> FALSE, hex |-> "", err |-> "IOError"]
    ELSE [ok |-> TRUE, hex |-> Digest(algorithm, text), err |-> ""]

\* ------------------------------------------------------------ the frames
NoBuild == [dir |-> "", out |-> "", alg |-> "", files |-> <<>>, count |-> 0,
            dirs |-> <<>>, todo |-> <<>>, hash |-> "", seen |-> <<>>,
            skipped |-> <<>>, errors |-> <<>>, ret |-> "none"]

NoVerify == [file |-> "", dirarg |-> "", doc |-> NoDoc, dir |-> "",
             alg |-> "", idx |-> 0, passed |-> 0, failed |-> 0,
             missing |-> 0, total |-> 0, outcomes |-> <<>>,
             summary |-> FALSE, ret |-> "none", disturbed |-> FALSE]

VerifyPcs == {"v_entry", "v_hash"}
BuildPcs == {"b_walk", "b_file", "b_stat"}

\* the orders in which a directory listing can come back
Orders(S) == {s \in [1..Cardinality(S) -> S] : \A i, j \in 1..Cardinality(S) : s[i] = s[j] => i = j}

FilesIn(d) == {p \in TreePaths : DirOf(p) = d /\ FileExists(p)}

\* the trees the program starts on: empty, a.txt alone, and both files with
\* equal or with different content
InitTrees ==
    {f \in [DataPaths -> {NoFile} \cup
              [present : {TRUE}, text : Contents, readable : {TRUE}, mtime : {0}]] :
        /\ f["a.txt"].text # "world"
        /\ f["sub/b.txt"].present => f["a.txt"].present}

Init ==
    /\ fs \in InitTrees
    /\ disk = [l \in OutLocs |-> NoDoc]
    /\ pc = "menu"
    /\ b = NoBuild
    /\ v = NoVerify
    /\ env = 0
    /\ nwrites = 0
    /\ touched = {}

\* ---------------------------------------------------- create_checksum_file
\* create_checksum_file without the existence test of the directory
CreateStartNoCheck(directory_path, output_file, algorithm) ==
    /\ pc = "menu"
    /\ nwrites < MaxWrites
    /\ b' = [NoBuild EXCEPT !.dir = directory_path, !.out = output_file,
                            !.alg = algorithm, !.dirs = <<".", "sub">>]
    /\ pc' = "b_walk"
    /\ touched' = {}
    /\ UNCHANGED <<fs, disk, v, env, nwrites>>

CreateStart(directory_path, output_file, algorithm) ==
    /\ pc = "menu"
    /\ nwrites < MaxWrites
    /\ IF ~DirExists(directory_path)
       THEN /\ b' = [NoBuild EXCEPT !.dir = directory_path, !.out = output_file,
                                    !.alg = algorithm, !.ret = "False"]
            /\ pc' = "b_done"
            /\ UNCHANGED touched
       ELSE /\ b' = [NoBuild EXCEPT !.dir = directory_path, !.out = output_file,
                                    !.alg = algorithm, !.dirs = <<".", "sub">>]
            /\ pc' = "b_walk"
            /\ touched' = {}
    /\ UNCHANGED <<fs, disk, v, env, nwrites>>

\* os.walk yields the next directory with the files it holds now
WalkDir ==
    /\ pc = "b_walk"
    /\ b.dirs # <<>>
    /\ \E order \in Orders(FilesIn(Head(b.dirs))) :
          b' = [b EXCEPT !.dirs = Tail(b.dirs), !.todo = order,
                         !.seen = b.seen \o order]
    /\ pc' = "b_file"
    /\ UNCHANGED <<fs, disk, v, env, nwrites, touched>>

\* the listing of the directory is exhausted
WalkNext ==
    /\ pc = "b_file"
    /\ b.todo = <<>>
    /\ pc' = "b_walk"
    /\ UNCHANGED <<fs, disk, b, v, env, nwrites, touched>>

\* the loop body without its own try: a failing file ends the build in the
\* outer handler
BuildHashAbort ==
    /\ pc = "b_file"
    /\ b.todo # <<>>
    /\ LET p == Head(b.todo)
           r == calculate_hash(FileExists(p), FileReadable(p), FileText(p), b.alg)
       IN IF BaseName(p) = b.out
          THEN /\ b' = [b EXCEPT !.todo = Tail(b.todo),
                                 !.skipped = Append(b.skipped, p)]
               /\ pc' = "b_file"
          ELSE IF ~r.ok
          THEN /\ b' = [b EXCEPT !.errors = Append(b.errors, p), !.ret = "False"]
               /\ pc' = "b_done"
          ELSE /\ b' = [b EXCEPT !.hash = r.hex]
               /\ pc' = "b_stat"
    /\ UNCHANGED <<fs, disk, v, env, nwrites, touched>>

\* the name test and calculate_hash for the next file of the listing
BuildHash ==
    /\ pc = "b_file"
    /\ b.todo # <<>>
    /\ LET p == Head(b.todo)
           r == calculate_hash(FileExists(p), FileReadable(p), FileText(p), b.alg)
       IN IF BaseName(p) = b.out
          THEN /\ b' = [b EXCEPT !.todo = Tail(b.todo),
                                 !.skipped = Append(b.skipped, p)]
               /\ pc' = "b_file"
          ELSE IF ~r.ok
          THEN /\ b' = [b EXCEPT !.todo = Tail(b.todo),
                                 !.errors = Append(b.errors, p)]
               /\ pc' = "b_file"
          ELSE /\ b' = [b EXCEPT !.hash = r.hex]
               /\ pc' = "b_stat"
    /\ UNCHANGED <<fs, disk, v, env, nwrites, touched>>

\* os.path.getsize and getmtime, then the entry and the count
BuildStat ==
    /\ pc = "b_stat"
    /\ LET p == Head(b.todo)
       IN IF ~FileExists(p)
          THEN b' = [b EXCEPT !.todo = Tail(b.todo), !.hash = "",
                              !.errors = Append(b.errors, p)]
          ELSE b' = [b EXCEPT !.todo = Tail(b.todo), !.hash = "",
                              !.files = Append(b.files,
                                   [path |-> p, hasHash |-> TRUE, hash |-> b.hash,
                                    size |-> TextSize(FileText(p)),
                                    modified |-> FileMtime(p)]),
                              !.count = b.count + 1]
    /\ pc' = "b_file"
    /\ UNCHANGED <<fs, disk, v, env, nwrites, touched>>

\* json.dump of checksums into output_file
BuildWrite ==
    /\ pc = "b_walk"
    /\ b.dirs = <<>>
    /\ disk' = [disk EXCEPT ![Resolve(b.out)] =
                   [present |-> TRUE, text |-> ManifestText(nwrites + 1),
                    mtime |-> nwrites + 1, json |-> TRUE, hasMetadata |-> TRUE,
                    hasFiles |-> TRUE, algorithm |-> b.alg,
                    directory |-> b.dir, files |-> b.files]]
    /\ nwrites' = nwrites + 1
    /\ b' = [b EXCEPT !.ret = "True"]
    /\ pc' = "b_done"
    /\ UNCHANGED <<fs, v, env, touched>>

\* -------------------------------------------------------- verify_integrity
\* the test of the summary with "or" for "and"
VerdictEither(failed, missing) == failed = 0 \/ missing = 0

\* the test of the summary: True exactly when nothing failed and nothing is missing
Verdict(failed, missing) == failed = 0 /\ missing = 0

\* open and json.load, the metadata, the counters
VerifyStart(checksum_file, directory_path) ==
    /\ pc = "menu"
    /\ LET doc == disk[Resolve(checksum_file)]
           fr == [NoVerify EXCEPT !.file = checksum_file, !.dirarg = directory_path,
                                  !.doc = doc]
       IN IF ~doc.present \/ ~doc.json \/ ~doc.hasMetadata
          THEN /\ v' = [fr EXCEPT !.ret = "False"]
               /\ pc' = "v_done"
          ELSE LET dir == IF directory_path = "None" THEN doc.directory
                          ELSE directory_path
                   fr2 == [fr EXCEPT !.alg = doc.algorithm, !.dir = dir]
               IN IF ~doc.hasFiles
                  THEN /\ v' = [fr2 EXCEPT !.ret = "False"]
                       /\ pc' = "v_done"
                  ELSE /\ v' = [fr2 EXCEPT !.total = Len(doc.files), !.idx = 1]
                       /\ pc' = "v_entry"
    /\ UNCHANGED <<fs, disk, b, env, nwrites, touched>>

\* os.path.exists(os.path.join(directory_path, rel_path))
JoinExists(dir, p) == DirExists(dir) /\ FileExists(p)

\* the existence test of the next entry
VerifyExists ==
    /\ pc = "v_entry"
    /\ v.idx <= Len(v.doc.files)
    /\ IF JoinExists(v.dir, v.doc.files[v.idx].path)
       THEN /\ pc' = "v_hash"
            /\ v' = v
       ELSE /\ pc' = "v_entry"
            /\ v' = [v EXCEPT !.missing = v.missing + 1, !.idx = v.idx + 1,
                              !.outcomes = Append(v.outcomes, "missing")]
    /\ UNCHANGED <<fs, disk, b, env, nwrites, touched>>

\* the loop body whose handler does not count the entry
VerifyHashNoCount ==
    /\ pc = "v_hash"
    /\ LET e == v.doc.files[v.idx]
           r == calculate_hash(JoinExists(v.dir, e.path), FileReadable(e.path),
                               FileText(e.path), v.alg)
       IN IF r.ok /\ e.hasHash /\ r.hex = e.hash
          THEN v' = [v EXCEPT !.passed = v.passed + 1, !.idx = v.idx + 1,
                              !.outcomes = Append(v.outcomes, "passed")]
          ELSE IF r.ok /\ e.hasHash
          THEN v' = [v EXCEPT !.failed = v.failed + 1, !.idx = v.idx + 1,
                              !.outcomes = Append(v.outcomes, "failed")]
          ELSE v' = [v EXCEPT !.idx = v.idx + 1,
                              !.outcomes = Append(v.outcomes, "failed")]
    /\ pc' = "v_entry"
    /\ UNCHANGED <<fs, disk, b, env, nwrites, touched>>

\* the loop body without its own try: a failing re-hash ends the run in the
\* outer handler
VerifyHashPropagate ==
    /\ pc = "v_hash"
    /\ LET e == v.doc.files[v.idx]
           r == calculate_hash(JoinExists(v.dir, e.path), FileReadable(e.path),
                               FileText(e.path), v.alg)
       IN IF ~r.ok \/ ~e.hasHash
          THEN /\ v' = [v EXCEPT !.ret = "False"]
               /\ pc' = "v_done"
          ELSE IF r.hex = e.hash
          THEN /\ v' = [v EXCEPT !.passed = v.passed + 1, !.idx = v.idx + 1,
                                 !.outcomes = Append(v.outcomes, "passed")]
               /\ pc' = "v_entry"
          ELSE /\ v' = [v EXCEPT !.failed = v.failed + 1, !.idx = v.idx + 1,
                                 !.outcomes = Append(v.outcomes, "failed")]
               /\ pc' = "v_entry"
    /\ UNCHANGED <<fs, disk, b, env, nwrites, touched>>

\* calculate_hash, file_info['hash'] and the comparison
VerifyHash ==
    /\ pc = "v_hash"
    /\ LET e == v.doc.files[v.idx]
           r == calculate_hash(JoinExists(v.dir, e.path), FileReadable(e.path),
                               FileText(e.path), v.alg)
       IN IF r.ok /\ e.hasHash /\ r.hex = e.hash
          THEN v' = [v EXCEPT !.passed = v.passed + 1, !.idx = v.idx + 1,
                              !.outcomes = Append(v.outcomes, "passed")]
          ELSE v' = [v EXCEPT !.failed = v.failed + 1, !.idx = v.idx + 1,
                              !.outcomes = Append(v.outcomes, "failed")]
    /\ pc' = "v_entry"
    /\ UNCHANGED <<fs, disk, b, env, nwrites, touched>>

\* the summary and the verdict
VerifySummary ==
    /\ pc = "v_entry"
    /\ v.idx > Len(v.doc.files)
    /\ v' = [v EXCEPT !.summary = TRUE,
                      !.ret = IF Verdict(v.failed, v.missing) THEN "True" ELSE "False"]
    /\ pc' = "v_done"
    /\ UNCHANGED <<fs, disk, b, env, nwrites, touched>>

\* ---------------------------------------------------------- the main loop
Return ==
    /\ pc \in {"b_done", "v_done"}
    /\ pc' = "menu"
    /\ b' = NoBuild
    /\ v' = NoVerify
    /\ UNCHANGED <<fs, disk, env, nwrites, touched>>

\* ------------------------------------------------------- other processes
\* a change made while verify_integrity runs is marked in its frame
EnvMark == v' = IF pc \in VerifyPcs \cup {"v_done"} THEN [v EXCEPT !.disturbed = TRUE] ELSE v

Modify(p, c) ==
    /\ env < MaxEnv
    /\ fs[p].present
    /\ c # fs[p].text
    /\ fs' = [fs EXCEPT ![p].text = c, ![p].mtime = fs[p].mtime + 1]
    /\ env' = env + 1
    /\ touched' = touched \cup {p}
    /\ EnvMark
    /\ UNCHANGED <<disk, pc, b, nwrites>>

Delete(p) ==
    /\ env < MaxEnv
    /\ fs[p].present
    /\ fs' = [fs EXCEPT ![p] = NoFile]
    /\ env' = env + 1
    /\ touched' = touched \cup {p}
    /\ EnvMark
    /\ UNCHANGED <<disk, pc, b, nwrites>>

Chmod(p) ==
    /\ env < MaxEnv
    /\ fs[p].present
    /\ fs' = [fs EXCEPT ![p].readable = ~fs[p].readable]
    /\ env' = env + 1
    /\ touched' = touched \cup {p}
    /\ EnvMark
    /\ UNCHANGED <<disk, pc, b, nwrites>>

\* the persisted manifest is rewritten into a document of another shape,
\* between two operations of the program
Tamper(l, kind) ==
    /\ env < MaxEnv
    /\ pc = "menu"
    /\ disk[l].present
    /\ kind = "nohash" => disk[l].hasFiles /\ disk[l].files # <<>>
    /\ LET d == [disk[l] EXCEPT !.text = TamperText(env + 1)]
       IN disk' = [disk EXCEPT ![l] =
            CASE kind = "badjson" -> [d EXCEPT !.json = FALSE]
              [] kind = "nometadata" -> [d EXCEPT !.hasMetadata = FALSE]
              [] kind = "nofiles" -> [d EXCEPT !.hasFiles = FALSE, !.files = <<>>]
              [] kind = "nohash" -> [d EXCEPT !.files[1].hasHash = FALSE,
                                             !.files[1].hash = ""]
              [] kind = "badalgo" -> [d EXCEPT !.algorithm = "sha512"]]
    /\ env' = env + 1
    /\ touched' = touched \cup {l}
    /\ EnvMark
    /\ UNCHANGED <<fs, pc, b, nwrites>>

Program ==
    \/ WalkDir
    \/ WalkNext
    \/ BuildHash
    \/ BuildStat
    \/ BuildWrite
    \/ VerifyExists
    \/ VerifyHash
    \/ VerifySummary
    \/ Return

Next ==
    \/ \E d \in DirArgs, o \in OutputArgs, a \in AlgoArgs : CreateStart(d, o, a)
    \/ \E o \in ChecksumArgs, d \in VerifyDirArgs : VerifyStart(o, d)
    \/ WalkDir
    \/ WalkNext
    \/ BuildHash
    \/ BuildStat
    \/ BuildWrite
    \/ VerifyExists
    \/ VerifyHash
    \/ VerifySummary
    \/ Return
    \/ \E p \in DataPaths, c \in Contents : Modify(p, c)
    \/ \E p \in DataPaths : Delete(p)
    \/ \E p \in DataPaths : Chmod(p)
    \/ \E l \in OutLocs, k \in TamperKinds : Tamper(l, k)

Spec == Init /\ [][Next]_vars

\* the program, once inside an operation, runs it to its end
FairSpec == Init /\ [][Next]_vars /\ WF_vars(Program)
\* ================================================================ claims
Range(s) == {s[i] : i \in 1..Len(s)}
EntryPaths(files) == {files[i].path : i \in 1..Len(files)}

\* the run of verify_integrity ended with its summary, on the manifest the
\* last build wrote, against the directory and with an algorithm of the build
VerifiedFresh ==
    /\ pc = "v_done"
    /\ v.summary
    /\ v.doc.text = ManifestText(nwrites)
    /\ v.alg \in Algorithms
    /\ v.dir = v.doc.directory

\* C1: a build followed by a verification of its manifest against the same
\* tree, no tracked file changed by anyone since the build began, reports
\* failed = 0, missing = 0, passed = total and returns True.
RoundTrip ==
    (VerifiedFresh /\ EntryPaths(v.doc.files) \cap touched = {})
        => /\ v.failed = 0
           /\ v.missing = 0
           /\ v.passed = v.total
           /\ v.ret = "True"

\* C2: after modifications and deletions of tracked files, a verification
\* that nobody disturbs counts every deleted tracked file as missing, every
\* tracked file whose content differs as failed, every untouched tracked file
\* as passed, and total is the number of entries.
DriftClassification ==
    (VerifiedFresh /\ ~v.disturbed)
        => /\ v.total = Len(v.doc.files)
           /\ \A i \in 1..Len(v.doc.files) :
                LET e == v.doc.files[i]
                IN /\ ~FileExists(e.path) => v.outcomes[i] = "missing"
                   /\ (FileExists(e.path) /\ Digest(v.alg, FileText(e.path)) # e.hash)
                         => v.outcomes[i] = "failed"
                   /\ e.path \notin touched => v.outcomes[i] = "passed"

\* C3: no entry of a persisted manifest refers to the manifest's own file,
\* whatever output_file was passed, on the first build and on every rebuild.
SelfExclusion ==
    \A l \in OutLocs : disk[l].present => l \notin EntryPaths(disk[l].files)

\* C4: every entry gets exactly one outcome in one step and keeps it: at
\* every point of the loop passed + failed + missing is the number of entries
\* processed so far, at the summary it is total, and total is the number of
\* entries of the manifest, fixed before the loop.
Count(outcomes, o) == Cardinality({i \in 1..Len(outcomes) : outcomes[i] = o})

PartitionInv ==
    (pc \in VerifyPcs \/ (pc = "v_done" /\ v.summary))
        => /\ v.total = Len(v.doc.files)
           /\ v.passed + v.failed + v.missing = v.idx - 1
           /\ Len(v.outcomes) = v.idx - 1
           /\ v.passed = Count(v.outcomes, "passed")
           /\ v.failed = Count(v.outcomes, "failed")
           /\ v.missing = Count(v.outcomes, "missing")
           /\ (pc = "v_done" => v.passed + v.failed + v.missing = v.total)

OutcomePartition ==
    [][/\ PartitionInv'
       /\ (pc \in VerifyPcs /\ pc' \in VerifyPcs \cup {"v_done"})
             => /\ v'.total = v.total
                /\ Len(v'.outcomes) \in {Len(v.outcomes), Len(v.outcomes) + 1}
                /\ \A i \in 1..Len(v.outcomes) : v'.outcomes[i] = v.outcomes[i]]_vars

OutcomePartitionWitness ==
    /\ pc = "v_done"
    /\ v.summary
    /\ v.total = 2
    /\ v.passed = 1
    /\ v.failed = 1

\* C5: a run that produced a report returns True exactly when failed = 0 and
\* missing = 0, and False otherwise; never True with an entry failed or
\* missing.
VerdictIff ==
    (pc = "v_done" /\ v.summary)
        => /\ v.ret \in {"True", "False"}
           /\ v.ret = "True" <=> (v.failed = 0 /\ v.missing = 0)
           /\ (\E i \in 1..Len(v.outcomes) : v.outcomes[i] \in {"failed", "missing"})
                 => v.ret = "False"

VerdictIffWitness ==
    /\ pc = "v_done"
    /\ v.summary
    /\ v.failed = 0
    /\ v.missing = 1
    /\ v.passed = 1
    /\ v.ret = "False"

\* C6: a build over an existing directory always ends with the manifest
\* written: a file whose hashing or stat-ing failed has no entry, every other
\* discovered file was skipped by name or recorded, and the count of
\* processed files is the number of entries.
BuildIsolation ==
    (pc = "b_done" /\ DirExists(b.dir))
        => /\ b.ret = "True"
           /\ b.count = Len(b.files)
           /\ Cardinality(EntryPaths(b.files)) = Len(b.files)
           /\ Range(b.errors) \cap EntryPaths(b.files) = {}
           /\ Range(b.seen) = Range(b.skipped) \cup Range(b.errors) \cup EntryPaths(b.files)
           /\ Resolve(b.out) \notin touched
                 => /\ disk[Resolve(b.out)].present
                    /\ disk[Resolve(b.out)].files = b.files

BuildIsolationWitness ==
    /\ pc = "b_done"
    /\ b.ret = "True"
    /\ b.errors # <<>>
    /\ b.files # <<>>
    /\ b.errors[1] = b.seen[1]
    /\ disk[Resolve(b.out)].files = b.files

\* C7: a failure of the re-hash of an existing file counts the entry as
\* failed, not as passed or missing, the loop goes on with the next entry,
\* and every run that entered the loop reaches the summary.
HashFails ==
    LET e == v.doc.files[v.idx]
    IN ~calculate_hash(JoinExists(v.dir, e.path), FileReadable(e.path),
                       FileText(e.path), v.alg).ok

VerifyIsolation ==
    /\ [][(pc = "v_hash" /\ pc' # "v_hash" /\ HashFails)
            => /\ pc' = "v_entry"
               /\ v'.failed = v.failed + 1
               /\ v'.passed = v.passed
               /\ v'.missing = v.missing
               /\ v'.idx = v.idx + 1]_vars
    /\ (pc \in VerifyPcs) ~> (pc = "v_done" /\ v.summary)

VerifyIsolationWitness ==
    /\ pc = "v_done"
    /\ v.summary
    /\ v.ret = "False"
    /\ Len(v.outcomes) = 2
    /\ v.outcomes[1] = "failed"
    /\ ~FileExists(v.doc.files[1].path)
    /\ v.outcomes[2] = "passed"

\* C8: a manifest that is not of the expected structure (invalid JSON, no
\* metadata, no files, an entry without hash, an algorithm tag outside the
\* three) makes verify_integrity return failure with no entry evaluated and
\* no summary.
Corrupt(d) ==
    /\ d.present
    /\ \/ ~d.json
       \/ ~d.hasMetadata
       \/ ~d.hasFiles
       \/ d.algorithm \notin Algorithms
       \/ \E i \in 1..Len(d.files) : ~d.files[i].hasHash

CorruptManifest ==
    (pc = "v_done" /\ Corrupt(v.doc))
        => /\ v.ret = "False"
           /\ ~v.summary
           /\ v.outcomes = <<>>

\* C9: the manifest that create_checksum_file persisted carries an algorithm
\* tag of the three, whatever algorithm argument was passed.
PersistedAlgorithm ==
    (pc = "b_done" /\ b.ret = "True" /\ Resolve(b.out) \notin touched)
        => disk[Resolve(b.out)].algorithm \in Algorithms

\* C10: a call with a directory that does not exist returns False at once:
\* nothing is hashed or recorded and the manifest file is left as it was;
\* the walk only ever runs over an existing directory.
MissingRoot ==
    [][/\ (pc = "menu" /\ pc' \in BuildPcs \cup {"b_done"} /\ ~DirExists(b'.dir))
             => /\ pc' = "b_done"
                /\ b'.ret = "False"
                /\ b'.files = <<>>
                /\ b'.count = 0
                /\ b'.hash = ""
                /\ disk' = disk
                /\ nwrites' = nwrites
       /\ pc' \in BuildPcs => DirExists(b'.dir)]_vars

MissingRootWitness ==
    /\ pc = "b_done"
    /\ ~DirExists(b.dir)
    /\ b.ret = "False"
    /\ disk[Resolve(b.out)].present
    /\ disk[Resolve(b.out)].files # <<>>
====
